---- MODULE Spec2Model ----
(***************************************************************************)
(* Model of keymap_optimizer.py: optimize_keymap builds a boolean program  *)
(* (assignment variables, link variables, three families of constraints,   *)
(* a weighted linear objective), hands it to the CP-SAT solver, decodes    *)
(* the solver's values into a layout, and the script prints the layout.    *)
(*                                                                         *)
(* A run is: build -> solve -> decode -> print -> exit | error.            *)
(* The solver is an external engine: it is modelled by its contract, a     *)
(* nondeterministic choice among the valuations that satisfy every         *)
(* constraint the program emitted (any of them for FEASIBLE, a minimal one *)
(* for OPTIMAL), or no valuation at all (UNKNOWN on timeout, INFEASIBLE    *)
(* when no valuation exists).                                              *)
(***************************************************************************)
EXTENDS Integers, Sequences, FiniteSets, TLC

\* ---------------------------------------------------------------- bounds
MaxPenalty == 2     \* largest entry of a penalty matrix
MaxTextLen == 3     \* longest corpus of a full run
MaxCorpusLen == 5   \* longest corpus of a frequency-extraction run
MaxScale == 2       \* largest frequency scaling factor

\* The first symbols of the script's alphabet, in its order.
letters_ == <<"Q", "W", "E", "R", "T">>

\* Python's None, as it appears in a slot of the result list.
NoneVal == "None"

VARIABLES
    pc,            \* position of the run
    letters,       \* argument: list of symbols
    penalty2,      \* argument: penalty2[k1][k2], keys 0..N-1
    input_text,    \* argument: the corpus, a sequence of characters
    variables,     \* keys of the dict `variables`: <<l, k>> and <<l1, l2, k1, k2>>
    freqs,         \* the value of `freq` computed for each ordered symbol pair
    expr,          \* list of link-variable keys of the objective
    coef,          \* list of their coefficients
    penaltyReads,  \* cells <<k1, k2>> of penalty2 the objective loop has read
    status,        \* solver status
    values,        \* solver's value for every variable (when it has a solution)
    objective,     \* solver.ObjectiveValue()
    valueReads,    \* variable keys passed to solver.Value by the decoder
    result,        \* return value of optimize_keymap
    printed        \* what the script's final loop printed

vars == <<pc, letters, penalty2, input_text, variables, freqs, expr, coef,
          penaltyReads, status, values, objective, valueReads, result, printed>>

\* ------------------------------------------------------------- helpers
N == Len(letters)
Keys == 0 .. (N - 1)
LetterSet == {letters[i] : i \in 1 .. N}

B2I(b) == IF b THEN 1 ELSE 0

RECURSIVE SumSeq(_)
SumSeq(s) == IF s = <<>> THEN 0 ELSE Head(s) + SumSeq(Tail(s))

\* itertools.permutations(letters, 2): ordered pairs of list positions i # j,
\* in itertools' order.
IsPermPair(p) == p[1] # p[2]
PermPairs(n) ==
    SelectSeq([q \in 1 .. n * n |-> <<((q - 1) \div n) + 1, ((q - 1) % n) + 1>>],
              IsPermPair)

\* Alternative enumeration: every ordered pair of distinct keys.
IsOrderedKeyPair(p) == p[1] # p[2]
OrderedKeyPairs(n) ==
    SelectSeq([q \in 1 .. n * n |-> <<(q - 1) \div n, (q - 1) % n>>],
              IsOrderedKeyPair)

\* itertools.combinations(range(len(letters)), 2): key pairs k1 < k2.
IsCombination(p) == p[1] < p[2]
Combinations(n) ==
    SelectSeq([q \in 1 .. n * n |-> <<(q - 1) \div n, (q - 1) % n>>],
              IsCombination)

AssignKey(l, k) == <<l, k>>
LinkKey(l1, l2, k1, k2) == <<l1, l2, k1, k2>>

\* Lines 28-36: the keys the two creation loops put into `variables`.
AssignKeys == {AssignKey(letters[i], k) : i \in 1 .. N, k \in Keys}
LinkKeys ==
    LET pp == PermPairs(N)
        cc == Combinations(N)
    IN  {LinkKey(letters[pp[p][1]], letters[pp[p][2]], cc[c][1], cc[c][2]) :
            p \in 1 .. Len(pp), c \in 1 .. Len(cc)}

\* str.count(sub): occurrences found by a left-to-right scan that resumes
\* after the end of each match (non-overlapping).
RECURSIVE CountFrom(_, _, _)
CountFrom(text, sub, i) ==
    IF i + Len(sub) - 1 > Len(text) THEN 0
    ELSE IF SubSeq(text, i, i + Len(sub) - 1) = sub
         THEN 1 + CountFrom(text, sub, i + Len(sub))
         ELSE CountFrom(text, sub, i + 1)

\* The concatenation taken in the wrong order: count(l2 + l1).
FreqReversed(text, l1, l2) == CountFrom(text, <<l2, l1>>, 1)

\* Line 56: freq = input_text.count(l1 + l2)
Freq(text, l1, l2) == CountFrom(text, <<l1, l2>>, 1)

\* A coefficient that adds where the code multiplies.
CoefSum(f, p) == f + p

\* Line 60: freq * penalty2[k1][k2]
Coef(f, p) == f * p

\* Lines 53-60: the objective's terms, in the order the loops append them
\* (term t belongs to symbol pair (t-1) div C and key pair (t-1) mod C).
\* F gives the frequency of each ordered symbol pair.
ExprList ==
    LET pp == PermPairs(N)
        cc == Combinations(N)
    IN  [t \in 1 .. Len(pp) * Len(cc) |->
            LET p == pp[((t - 1) \div Len(cc)) + 1]
                c == cc[((t - 1) % Len(cc)) + 1]
            IN  LinkKey(letters[p[1]], letters[p[2]], c[1], c[2])]
CoefList(F) ==
    LET pp == PermPairs(N)
        cc == Combinations(N)
    IN  [t \in 1 .. Len(pp) * Len(cc) |->
            LET p == pp[((t - 1) \div Len(cc)) + 1]
                c == cc[((t - 1) % Len(cc)) + 1]
            IN  Coef(F[<<letters[p[1]], letters[p[2]]>>], penalty2[c[1]][c[2]])]
FreqMap ==
    LET pp == PermPairs(N)
    IN  [pr \in {<<letters[pp[p][1]], letters[pp[p][2]]>> : p \in 1 .. Len(pp)} |->
            Freq(input_text, pr[1], pr[2])]
ReadCells ==
    LET cc == Combinations(N)
    IN  IF Len(PermPairs(N)) = 0 THEN {} ELSE {cc[c] : c \in 1 .. Len(cc)}

\* cp_model.LinearExpr.WeightedSum(expr, coef) under a valuation v.
WeightedSum(e, c, v) == SumSeq([t \in 1 .. Len(e) |-> c[t] * B2I(v[e[t]])])

\* ------------------------------------------------------ the constraints
\* A weaker constraint 1: at most one key per letter.
LetterConstraintAtMost(v, l) ==
    SumSeq([k \in 1 .. N |-> B2I(v[AssignKey(l, k - 1)])]) <= 1

\* Lines 39-40: each letter is assigned to exactly one key.
LetterConstraint(v, l) ==
    SumSeq([k \in 1 .. N |-> B2I(v[AssignKey(l, k - 1)])]) = 1

\* Lines 43-44: each key holds at most one letter (the sum runs over the
\* list, so a symbol listed twice is counted twice).
KeyConstraint(v, key) ==
    SumSeq([i \in 1 .. N |-> B2I(v[AssignKey(letters[i], key)])]) <= 1

\* Only the first implication of constraint 3.
LinkConstraintAndOnly(v, lv) ==
    v[lv] => (v[AssignKey(lv[1], lv[3])] /\ v[AssignKey(lv[2], lv[4])])

\* Lines 47-50: AddBoolAnd(...).OnlyEnforceIf(link) and
\* AddBoolOr(not ..., not ...).OnlyEnforceIf(link.Not()).
LinkConstraint(v, lv) ==
    /\ v[lv] => (v[AssignKey(lv[1], lv[3])] /\ v[AssignKey(lv[2], lv[4])])
    /\ ~v[lv] => (~v[AssignKey(lv[1], lv[3])] \/ ~v[AssignKey(lv[2], lv[4])])

\* ------------------------------------------------------------ the solver
\* The valuations of the variables in `variables` that satisfy every
\* constraint.  Constraint 1 mentions one letter's variables only, so the
\* assignment part is enumerated letter by letter; each link variable occurs
\* in its own constraint 3 only, so its admissible values are found one
\* variable at a time.
RowKeys(l) == {AssignKey(l, k) : k \in Keys}
RowOf(l, r) == [vk \in RowKeys(l) |-> r[vk[2]]]
FeasibleRows(l) == {r \in [Keys -> BOOLEAN] : LetterConstraint(RowOf(l, r), l)}
JoinRows(f) == [vk \in {w \in variables : Len(w) = 2} |-> f[vk[1]][vk[2]]]
FeasibleAssignments ==
    LET rows == [l \in LetterSet |-> FeasibleRows(l)]
        cands == {g \in [LetterSet -> UNION {rows[l] : l \in LetterSet}] :
                     \A l \in LetterSet : g[l] \in rows[l]}
    IN  {a \in {JoinRows(f) : f \in cands} : \A key \in Keys : KeyConstraint(a, key)}
Admissible(a, lv) == {b \in BOOLEAN : LinkConstraint((lv :> b) @@ a, lv)}
FeasibleLinks(a) ==
    LET links == {w \in variables : Len(w) = 4}
        adm == [lv \in links |-> Admissible(a, lv)]
        free == {lv \in links : adm[lv] = BOOLEAN}
    IN  IF \E lv \in links : adm[lv] = {} THEN {}
        ELSE {[lv \in links |->
                  IF lv \in free THEN lv \in T ELSE CHOOSE b \in adm[lv] : TRUE] :
                T \in SUBSET free}
FeasibleSolutions ==
    UNION {{a @@ x : x \in FeasibleLinks(a)} : a \in FeasibleAssignments}

ObjectiveValue(v) == WeightedSum(expr, coef, v)

\* A decoder that accepts a proven optimum only.
DecodableOptimalOnly(st) == st = "OPTIMAL"

\* Line 71: status == OPTIMAL or status == FEASIBLE
Decodable(st) == st \in {"OPTIMAL", "FEASIBLE"}

\* Lines 72-77: result[key] = letter for every variable whose value is true;
\* the loops run over the letters in list order, so the last letter wins.
HitsAt(v, k) == {i \in 1 .. N : v[AssignKey(letters[i], k)]}
LastOf(S) == CHOOSE i \in S : \A j \in S : j <= i
Decode(v) ==
    [k \in 1 .. N |->
        IF HitsAt(v, k - 1) = {} THEN NoneVal ELSE letters[LastOf(HitsAt(v, k - 1))]]

\* --------------------------------------------------------------- inputs
\* Alphabets: the first one, two and three symbols of the script's
\* alphabet, and two lists that name a symbol twice.
LetterLists ==
    {SubSeq(letters_, 1, 1), SubSeq(letters_, 1, 2), SubSeq(letters_, 1, 3),
     <<"Q", "Q">>, <<"Q", "W", "Q">>}

\* Penalty matrices: the spec's toy shape (one cell, [0][1] or [1][0], set
\* apart from a uniform background) and the gradients u*i + l*j, which are
\* asymmetric whenever u # l.
PenaltyMatrices(n) ==
    {[i \in 0 .. n - 1 |-> [j \in 0 .. n - 1 |-> IF <<i, j>> = cell THEN lo ELSE hi]] :
        cell \in {<<0, 1>>, <<1, 0>>}, lo \in 0 .. MaxPenalty, hi \in 0 .. MaxPenalty}
    \cup
    {[i \in 0 .. n - 1 |-> [j \in 0 .. n - 1 |-> (u * i + l * j) % (MaxPenalty + 1)]] :
        u \in 0 .. MaxPenalty, l \in 0 .. MaxPenalty}

\* Corpora: every text over the alphabet up to MaxTextLen characters.
Corpora(ls) ==
    UNION {[1 .. m -> {ls[i] : i \in 1 .. Len(ls)}] : m \in 0 .. MaxTextLen}

NoResult == [kind |-> "unset", list |-> <<>>]

\* The state on entry to optimize_keymap (line 137).
Init ==
    /\ letters \in LetterLists
    /\ penalty2 \in PenaltyMatrices(Len(letters))
    /\ input_text \in Corpora(letters)
    /\ pc = "build"
    /\ variables = {}
    /\ freqs = <<>>
    /\ expr = <<>>
    /\ coef = <<>>
    /\ penaltyReads = {}
    /\ status = "NONE"
    /\ values = <<>>
    /\ objective = 0
    /\ valueReads = {}
    /\ result = NoResult
    /\ printed = <<>>

\* -------------------------------------------------------------- actions
\* Lines 22-61: create the variables, add the constraints, set the objective.
BuildModel ==
    /\ pc = "build"
    /\ variables' = AssignKeys \cup LinkKeys
    /\ freqs' = FreqMap
    /\ expr' = ExprList
    /\ coef' = CoefList(FreqMap)
    /\ penaltyReads' = ReadCells
    /\ pc' = "solve"
    /\ UNCHANGED <<letters, penalty2, input_text, status, values, objective,
                   valueReads, result, printed>>

\* Line 64: status = solver.solve(model).  The outcomes the solver may
\* report: INFEASIBLE when no valuation satisfies the constraints; otherwise
\* UNKNOWN (time limit, nothing found), FEASIBLE with any satisfying
\* valuation, or OPTIMAL with one of least objective value.
SolverOutcomes ==
    LET scored == {[values |-> v, objective |-> ObjectiveValue(v)] :
                      v \in FeasibleSolutions}
        least == {s \in scored : \A w \in scored : s.objective <= w.objective}
    IN  IF scored = {}
        THEN {[status |-> "INFEASIBLE", values |-> <<>>, objective |-> 0]}
        ELSE {[status |-> "UNKNOWN", values |-> <<>>, objective |-> 0]}
             \cup {[status |-> "FEASIBLE", values |-> s.values,
                    objective |-> s.objective] : s \in scored}
             \cup {[status |-> "OPTIMAL", values |-> s.values,
                    objective |-> s.objective] : s \in least}

Solve ==
    /\ pc = "solve"
    /\ \E out \in SolverOutcomes :
           /\ status' = out.status
           /\ values' = out.values
           /\ objective' = out.objective
    /\ pc' = "decode"
    /\ UNCHANGED <<letters, penalty2, input_text, variables, freqs, expr, coef,
                   penaltyReads, valueReads, result, printed>>

\* Lines 70-80: decode the assignment variables, or return None.
DecodeResult ==
    /\ pc = "decode"
    /\ IF Decodable(status)
       THEN /\ result' = [kind |-> "list", list |-> Decode(values)]
            /\ valueReads' = AssignKeys
       ELSE /\ result' = [kind |-> "none", list |-> <<>>]
            /\ valueReads' = {}
    /\ pc' = "print"
    /\ UNCHANGED <<letters, penalty2, input_text, variables, freqs, expr, coef,
                   penaltyReads, status, values, objective, printed>>

\* Lines 140-143: for i, l in enumerate(result): print(l, ...).  Iterating
\* None raises TypeError, which ends the script with a traceback.
PrintLayout ==
    /\ pc = "print"
    /\ IF result.kind = "list"
       THEN /\ printed' = result.list
            /\ pc' = "exit"
       ELSE /\ printed' = <<>>
            /\ pc' = "error"
    /\ UNCHANGED <<letters, penalty2, input_text, variables, freqs, expr, coef,
                   penaltyReads, status, values, objective, valueReads, result>>

Next == BuildModel \/ Solve \/ DecodeResult \/ PrintLayout

Spec == Init /\ [][Next]_vars

\* ------------------------------------------- frequency extraction alone
\* Corpora that also hold a character outside the alphabet, as a real text
\* does; the run stops once the model is built.
LongCorpora(ls) ==
    UNION {[1 .. m -> {ls[i] : i \in 1 .. Len(ls)} \cup {" "}] : m \in 0 .. MaxCorpusLen}

InitFreq ==
    /\ letters \in LetterLists
    /\ penalty2 = [i \in 0 .. Len(letters) - 1 |-> [j \in 0 .. Len(letters) - 1 |-> 1]]
    /\ input_text \in LongCorpora(letters)
    /\ pc = "build"
    /\ variables = {}
    /\ freqs = <<>>
    /\ expr = <<>>
    /\ coef = <<>>
    /\ penaltyReads = {}
    /\ status = "NONE"
    /\ values = <<>>
    /\ objective = 0
    /\ valueReads = {}
    /\ result = NoResult
    /\ printed = <<>>

NextFreq == BuildModel

SpecFreq == InitFreq /\ [][NextFreq]_vars

\* --------------------------------------------------- the decoder alone
\* The decoder applied to whatever values a solver might hand back with a
\* status of OPTIMAL or FEASIBLE, consistent with the constraints or not.
InitDecode ==
    /\ letters \in {SubSeq(letters_, 1, 1), SubSeq(letters_, 1, 2), SubSeq(letters_, 1, 3)}
    /\ penalty2 = [i \in 0 .. Len(letters) - 1 |-> [j \in 0 .. Len(letters) - 1 |-> 1]]
    /\ input_text = <<>>
    /\ pc = "decode"
    /\ variables = AssignKeys \cup LinkKeys
    /\ freqs = FreqMap
    /\ expr = ExprList
    /\ coef = CoefList(FreqMap)
    /\ penaltyReads = ReadCells
    /\ status \in {"OPTIMAL", "FEASIBLE"}
    /\ \E a \in [AssignKeys -> BOOLEAN] :
           values = a @@ [lv \in LinkKeys |->
                             a[AssignKey(lv[1], lv[3])] /\ a[AssignKey(lv[2], lv[4])]]
    /\ objective = 0
    /\ valueReads = {}
    /\ result = NoResult
    /\ printed = <<>>

NextDecode == DecodeResult \/ PrintLayout

SpecDecode == InitDecode /\ [][NextDecode]_vars

\* ------------------------------------------------- independent measures
\* What the properties below compare the program with; none of these is
\* computed the way the program computes.
RECURSIVE SumFun(_)
SumFun(f) ==
    IF DOMAIN f = {} THEN 0
    ELSE LET x == CHOOSE y \in DOMAIN f : TRUE
         IN  f[x] + SumFun([y \in DOMAIN f \ {x} |-> f[y]])

\* Number of indices i with text[i] = s1 and text[i+1] = s2.
AdjacentCount(text, s1, s2) ==
    Cardinality({i \in 1 .. Len(text) - 1 : text[i] = s1 /\ text[i + 1] = s2})

OrderedPairs == {p \in LetterSet \X LetterSet : p[1] # p[2]}

\* Total transition cost of a layout pos (symbol -> key): every ordered pair
\* of distinct symbols, whichever of the two keys is the lower.
TransitionCost(pos) ==
    SumFun([p \in OrderedPairs |->
               AdjacentCount(input_text, p[1], p[2]) * penalty2[pos[p[1]]][pos[p[2]]]])

\* The part of it owed to pairs whose first symbol is on the lower key.
AscendingCost(pos) ==
    SumFun([p \in OrderedPairs |->
               IF pos[p[1]] < pos[p[2]]
               THEN AdjacentCount(input_text, p[1], p[2]) * penalty2[pos[p[1]]][pos[p[2]]]
               ELSE 0])

Bijections ==
    {f \in [LetterSet -> Keys] : \A a \in LetterSet, b \in LetterSet : a # b => f[a] # f[b]}

BruteForceMin ==
    LET costs == {TransitionCost(f) : f \in Bijections}
    IN  CHOOSE m \in costs : \A c \in costs : m <= c

\* position(s): the index of s in a returned list in which every symbol occurs.
PositionsIn(L) == [s \in LetterSet |-> (CHOOSE k \in 1 .. Len(L) : L[k] = s) - 1]

Returned == pc \in {"print", "exit", "error"}
Solved == status \in {"OPTIMAL", "FEASIBLE"}

\* ------------------------------------------------------------ properties

\* C1: whenever optimize_keymap returns a layout (status OPTIMAL or
\* FEASIBLE), the list has length N, no slot is None, and every symbol of
\* the alphabet is in exactly one position.
C1_LayoutIsBijection ==
    (Returned /\ Solved) =>
        /\ result.kind = "list"
        /\ Len(result.list) = N
        /\ \A k \in 1 .. N : result.list[k] # NoneVal
        /\ \A l \in LetterSet :
               Cardinality({k \in 1 .. N : result.list[k] = l}) = 1

\* A three-symbol layout other than the identity has been returned.
C1_Witness ==
    /\ pc = "exit"
    /\ status = "FEASIBLE"
    /\ result.list = <<"E", "Q", "W">>

\* C2 (as claimed): when the status is OPTIMAL, the objective value equals
\* the brute-force minimum, over all bijections, of the total transition
\* cost summed over all ordered pairs of distinct symbols.
C2_ObjectiveIsBruteForceMin ==
    status = "OPTIMAL" => objective = BruteForceMin

\* C3 (as claimed): for every solution returned, the objective value equals
\* the cost computed from the decoded layout over all ordered symbol pairs:
\* frequency(s1,s2) x penalty[position(s1)][position(s2)].
C3_ObjectiveIsLayoutCost ==
    (Returned /\ Solved /\ result.kind = "list") =>
        objective = TransitionCost(PositionsIn(result.list))

\* C4: in every valuation satisfying the emitted constraints, for all
\* distinct symbols s1, s2 and keys k1 < k2, link variable (s1,s2,k1,k2) is
\* true exactly when assignment variables (s1,k1) and (s2,k2) are both true.
C4_LinkIsAnd ==
    Solved =>
        \A s1 \in LetterSet, s2 \in LetterSet, k1 \in Keys, k2 \in Keys :
            (s1 # s2 /\ k1 < k2) =>
                /\ LinkKey(s1, s2, k1, k2) \in DOMAIN values
                /\ values[LinkKey(s1, s2, k1, k2)]
                       <=> (values[AssignKey(s1, k1)] /\ values[AssignKey(s2, k2)])

\* A solution in which one link variable is true and another is false
\* although one of its two assignment variables is true.
C4_Witness ==
    /\ status = "FEASIBLE"
    /\ N = 3
    /\ values[LinkKey("Q", "W", 0, 2)]
    /\ values[AssignKey("E", 1)]
    /\ ~values[LinkKey("Q", "E", 0, 2)]

\* C5: for every corpus and every ordered pair of distinct symbols the
\* frequency used in the objective equals the number of indices i with
\* corpus[i] = s1 and corpus[i+1] = s2; for the empty corpus every frequency
\* is 0, and the extraction yields a frequency for every such pair.
C5_FreqIsAdjacentCount ==
    pc # "build" =>
        \A s1 \in LetterSet, s2 \in LetterSet :
            s1 # s2 =>
                /\ <<s1, s2>> \in DOMAIN freqs
                /\ freqs[<<s1, s2>>] = AdjacentCount(input_text, s1, s2)
                /\ input_text = <<>> => freqs[<<s1, s2>>] = 0

\* A corpus in which one pair occurs twice, back to back, and its reverse once.
C5_Witness ==
    /\ pc = "solve"
    /\ input_text = <<"Q", "W", "Q", "W", " ">>
    /\ freqs[<<"Q", "W">>] = 2
    /\ freqs[<<"W", "Q">>] = 1

\* C6: optimize_keymap returns None exactly when the status is neither
\* OPTIMAL nor FEASIBLE; then no variable value has been read; otherwise a
\* list of length N is returned.
C6_NoneIffNotSolved ==
    Returned =>
        /\ (result.kind = "none") <=> ~Solved
        /\ result.kind = "none" => valueReads = {}
        /\ result.kind # "none" => (result.kind = "list" /\ Len(result.list) = N)

\* None has been returned after the solver ran out of time on a model that
\* has solutions.
C6_Witness ==
    /\ pc = "print"
    /\ status = "UNKNOWN"
    /\ result.kind = "none"
    /\ N = 3

\* C7 (as claimed): when no layout is found, the run, including the
\* top-level code that prints the result, ends normally, not in an error.
C7_NoLayoutIsNotFatal ==
    (result.kind = "none") => pc # "error"

\* C8: scaling every frequency by c >= 1 leaves the set of minimizing
\* solutions unchanged and multiplies the minimum objective value by c.
C8_ScalingKeepsOptima ==
    pc = "solve" =>
        LET S == FeasibleSolutions
            base == [v \in S |-> WeightedSum(expr, coef, v)]
            bestBase == {v \in S : \A w \in S : base[v] <= base[w]}
        IN  \A c \in 1 .. MaxScale :
                LET scaled == CoefList([pr \in DOMAIN freqs |-> c * freqs[pr]])
                    cost == [v \in S |-> WeightedSum(expr, scaled, v)]
                    best == {v \in S : \A w \in S : cost[v] <= cost[w]}
                IN  /\ best = bestBase
                    /\ \A v \in best : cost[v] = c * base[v]

\* A built model whose minimum is positive and is missed by some solution.
C8_Witness ==
    /\ pc = "solve"
    /\ N = 3
    /\ LET S == FeasibleSolutions
       IN  /\ \A v \in S : WeightedSum(expr, coef, v) > 0
           /\ \E v \in S, w \in S : WeightedSum(expr, coef, v) < WeightedSum(expr, coef, w)

====
